---------------------------- MODULE Spec2Model ----------------------------
(***************************************************************************)
(* A model of the 6502-family CPU core of src/src/cpu.rs: the status       *)
(* register, the register file, fetch / decode / execute and tick().       *)
(*                                                                         *)
(* The CPU's fields are the variables acc, x, y, sr, sp, pc, wram and rom. *)
(* A Rust panic (todo!, panic!, an out-of-range index in Memory) ends the  *)
(* run: it is recorded in the variable panic and no tick follows it.       *)
(* Three observation variables record what the last tick did: pre (the     *)
(* CPU as it was when the tick was called), inst (the Instruction value    *)
(* decode built) and io (the addresses the tick passed to the two          *)
(* memories, in order).                                                    *)
(***************************************************************************)
EXTENDS Integers, Sequences, FiniteSets, TLC

VARIABLES acc, x, y, sr, sp, pc, wram, rom, panic, pre, inst, io

vars == <<acc, x, y, sr, sp, pc, wram, rom, panic, pre, inst, io>>

(***************************************************************************)
(* Program constants.                                                      *)
(***************************************************************************)
WRAM_SIZE == 2048

ROM_SIZE == 3840

\* u8 and u16 arithmetic
U8 == 256

U16 == 65536

(***************************************************************************)
(* Bounds of the model.                                                    *)
(***************************************************************************)
\* longest program, in instructions, among the enumerated program images
MaxInstrs == 2

\* most fields (registers, flags, working-RAM bytes) a test presets between
\* construction and its first tick
MaxPresets == 2

\* instructions in an enumerated program of the driven runs
MaxDrivenInstrs == 1

(***************************************************************************)
(* Status: a bitflags value is the set of the flags it contains.           *)
(***************************************************************************)
Flags == {"C", "Z", "I", "D", "B", "U", "V", "N"}

\* bitflags' `a & b`: the flags in both
StatusAnd(a, b) == a \cap b

\* bitflags' set(flag, value): insert the flag or remove it
StatusSet(s, flag, value) == IF value THEN s \cup {flag} ELSE s \ {flag}

\* bitwise AND of two naturals
RECURSIVE BitAnd(_, _)
BitAnd(a, b) ==
    IF a = 0 \/ b = 0 THEN 0
    ELSE (IF a % 2 = 1 /\ b % 2 = 1 THEN 1 ELSE 0) + 2 * BitAnd(a \div 2, b \div 2)

\* mutant: N from val > 0x80
set_zn_flags_Gt(s, val) ==
    StatusSet(StatusSet(s, "Z", val = 0), "N", val > 128)

set_zn_flags(s, val) ==
    StatusSet(StatusSet(s, "Z", val = 0), "N", BitAnd(val, 128) = 128)

(***************************************************************************)
(* Memory<N>: N bytes, zero unless written.  data holds the non-zero bytes *)
(* only, so that equal memories are equal values.                          *)
(***************************************************************************)
MemoryNew(size) == [size |-> size, data |-> <<>>]

read_u8(m, addr) == IF addr \in DOMAIN m.data THEN m.data[addr] ELSE 0

write_u8(m, addr, val) ==
    LET keep == IF val = 0 THEN DOMAIN m.data \ {addr} ELSE DOMAIN m.data \cup {addr}
    IN  [m EXCEPT !.data = [a \in keep |-> IF a = addr THEN val ELSE m.data[a]]]

\* the bytes land at addresses 0 .. Len(bytes)-1, the rest stays zero
with_program(size, bytes) ==
    [size |-> size,
     data |-> [a \in {i \in 0 .. Len(bytes) - 1 : bytes[i + 1] # 0} |-> bytes[a + 1]]]

InRange(m, addr) == addr < m.size

(***************************************************************************)
(* Panics.                                                                 *)
(***************************************************************************)
NoPanic == [kind |-> "none", val |-> 0]

\* todo!("interrupts")
TodoPanic == [kind |-> "todo", val |-> 0]

\* panic!("illegal opcode: 0x{:02X}", opcode)
IllegalPanic(opcode) == [kind |-> "illegal", val |-> opcode]

\* an address outside the memory it was passed to
RangePanic(addr) == [kind |-> "range", val |-> addr]

Access(mem, kind, addr) == [mem |-> mem, kind |-> kind, addr |-> addr]

(***************************************************************************)
(* The CPU as one value c, with the panic raised so far and the accesses   *)
(* made so far.  Once c.panic is set the remaining code is not run.        *)
(***************************************************************************)
RomRead(c, addr) ==
    LET seen == [c EXCEPT !.io = Append(@, Access("rom", "read", addr))]
    IN  IF InRange(c.rom, addr) THEN seen ELSE [seen EXCEPT !.panic = RangePanic(addr)]

WramRead(c, addr) ==
    LET seen == [c EXCEPT !.io = Append(@, Access("wram", "read", addr))]
    IN  IF InRange(c.wram, addr) THEN seen ELSE [seen EXCEPT !.panic = RangePanic(addr)]

WramWrite(c, addr, val) ==
    LET seen == [c EXCEPT !.io = Append(@, Access("wram", "write", addr))]
    IN  IF InRange(c.wram, addr)
        THEN [seen EXCEPT !.wram = write_u8(c.wram, addr, val)]
        ELSE [seen EXCEPT !.panic = RangePanic(addr)]


(***************************************************************************)
(* fetch: read the byte at pc from the program stream, then pc += 1.       *)
(* pc < ROM_SIZE < 2^16 when the read succeeded, so the addition cannot    *)
(* overflow the u16.                                                        *)
(***************************************************************************)
fetch(c) ==
    LET r == RomRead(c, c.pc)
    IN  IF r.panic # NoPanic
        THEN [cpu |-> r, byte |-> 0]
        ELSE [cpu |-> [r EXCEPT !.pc = c.pc + 1], byte |-> read_u8(c.rom, c.pc)]

Inst(op, arg) == [op |-> op, arg |-> arg]

NoInst == Inst("none", 0)

\* mutant: the entry of 0xA4 (LDY) built without its fetch()
OperandOpcodes_NoLdy == {6, 37, 101, 133, 144, 166, 169, 230}

\* the opcodes whose table entry calls fetch() for one operand byte
OperandOpcodes == {6, 37, 101, 133, 144, 164, 166, 169, 230}

\* the mnemonic the table gives each opcode
Mnemonic(opcode) ==
    CASE opcode = 0   -> "BRK"
      [] opcode = 6   -> "ASL"
      [] opcode = 24  -> "CLC"
      [] opcode = 37  -> "AND"
      [] opcode = 56  -> "SEC"
      [] opcode = 88  -> "CLI"
      [] opcode = 101 -> "ADC"
      [] opcode = 120 -> "SEI"
      [] opcode = 133 -> "STA"
      [] opcode = 136 -> "DEY"
      [] opcode = 138 -> "TXA"
      [] opcode = 144 -> "BCC"
      [] opcode = 152 -> "TYA"
      [] opcode = 164 -> "LDY"
      [] opcode = 166 -> "LDX"
      [] opcode = 168 -> "TAY"
      [] opcode = 169 -> "LDA"
      [] opcode = 170 -> "TAX"
      [] opcode = 184 -> "CLV"
      [] opcode = 200 -> "INY"
      [] opcode = 202 -> "DEX"
      [] opcode = 216 -> "CLD"
      [] opcode = 230 -> "INC"
      [] opcode = 232 -> "INX"
      [] opcode = 234 -> "NOP"
      [] opcode = 248 -> "SED"
      [] OTHER        -> "Illegal"

\* decode: may step pc (through fetch) when the opcode takes an operand
decode(c, opcode) ==
    IF opcode \in OperandOpcodes
    THEN LET f == fetch(c)
         IN  [cpu |-> f.cpu,
              inst |-> IF f.cpu.panic # NoPanic THEN NoInst ELSE Inst(Mnemonic(opcode), f.byte)]
    ELSE IF Mnemonic(opcode) = "Illegal"
         THEN [cpu |-> c, inst |-> Inst("Illegal", opcode)]
         ELSE [cpu |-> c, inst |-> Inst(Mnemonic(opcode), 0)]

(***************************************************************************)
(* execute, one operator per arm of the match.                             *)
(***************************************************************************)
\* u8::wrapping_add, u8::wrapping_sub
wrapping_add(v, n) == (v + n) % U8

\* mutant: the subtraction stops at zero
wrapping_sub_Saturating(v, n) == IF v < n THEN 0 ELSE v - n

wrapping_sub(v, n) == (v + U8 - n) % U8

\* mutant: Carry is set from bit 7 and never cleared
ExecASL_KeepCarry(c, addr) ==
    LET r == WramRead(c, addr)
        data == read_u8(c.wram, addr)
        shifted == (data * 2) % U8
        s == set_zn_flags(IF (data \div 128) % 2 > 0 THEN StatusSet(c.sr, "C", TRUE) ELSE c.sr,
                          shifted)
    IN  IF r.panic # NoPanic THEN r
        ELSE WramWrite([r EXCEPT !.sr = s], addr, shifted)

ExecASL(c, addr) ==
    LET r == WramRead(c, addr)
        data == read_u8(c.wram, addr)
        shifted == (data * 2) % U8
        s == set_zn_flags(StatusSet(c.sr, "C", (data \div 128) % 2 > 0), shifted)
    IN  IF r.panic # NoPanic THEN r
        ELSE WramWrite([r EXCEPT !.sr = s], addr, shifted)

ExecAND(c, addr) ==
    LET r == WramRead(c, addr)
        a == BitAnd(c.acc, read_u8(c.wram, addr))
    IN  IF r.panic # NoPanic THEN r
        ELSE [r EXCEPT !.acc = a, !.sr = set_zn_flags(c.sr, a)]

\* mutant: the 6502's add with carry-in
ExecADC_CarryIn(c, addr) ==
    LET r == WramRead(c, addr)
        sum == c.acc + read_u8(c.wram, addr) + (IF "C" \in c.sr THEN 1 ELSE 0)
        a == sum % U8
        o == sum >= U8
    IN  IF r.panic # NoPanic THEN r
        ELSE [r EXCEPT !.acc = a, !.sr = StatusSet(set_zn_flags(c.sr, a), "C", o)]

\* mutant: the 6502's add, which sets Overflow on a signed overflow
ExecADC_Overflow(c, addr) ==
    LET r == WramRead(c, addr)
        data == read_u8(c.wram, addr)
        sum == c.acc + data
        a == sum % U8
        o == sum >= U8
        v == (c.acc >= 128) = (data >= 128) /\ (a >= 128) # (c.acc >= 128)
    IN  IF r.panic # NoPanic THEN r
        ELSE [r EXCEPT !.acc = a,
                       !.sr = StatusSet(StatusSet(set_zn_flags(c.sr, a), "C", o), "V", v)]

ExecADC(c, addr) ==
    LET r == WramRead(c, addr)
        sum == c.acc + read_u8(c.wram, addr)
        a == sum % U8
        o == sum >= U8
    IN  IF r.panic # NoPanic THEN r
        ELSE [r EXCEPT !.acc = a, !.sr = StatusSet(set_zn_flags(c.sr, a), "C", o)]

ExecINC(c, addr) ==
    LET r == WramRead(c, addr)
        v == wrapping_add(read_u8(c.wram, addr), 1)
    IN  IF r.panic # NoPanic THEN r
        ELSE LET w == WramWrite(r, addr, v)
             IN  IF w.panic # NoPanic THEN w
                 ELSE [w EXCEPT !.sr = set_zn_flags(c.sr, v)]

\* mutant: STA stores x
ExecSTA_X(c, addr) == WramWrite(c, addr, c.x)

\* mutant: STA updates Z and N as a load does
ExecSTA_Zn(c, addr) ==
    LET w == WramWrite(c, addr, c.acc)
    IN  [w EXCEPT !.sr = set_zn_flags(c.sr, c.acc)]

\* mutant: one address space, STA writes the program memory
ExecSTA_Rom(c, addr) == [c EXCEPT !.rom = write_u8(c.rom, addr, c.acc)]

ExecSTA(c, addr) == WramWrite(c, addr, c.acc)

\* mutant: the offset sign-extended, as the 6502 branches
ExecBCC_Signed(c, offset) ==
    IF "C" \in c.sr
    THEN [c EXCEPT !.pc = (c.pc + (IF offset < 128 THEN offset ELSE offset - U8) + U16) % U16]
    ELSE c

\* mutant: the 6502's polarity, branch when Carry is clear
ExecBCC_CarryClear(c, offset) ==
    IF "C" \notin c.sr THEN [c EXCEPT !.pc = (c.pc + offset) % U16] ELSE c

ExecBCC(c, offset) ==
    IF "C" \in c.sr THEN [c EXCEPT !.pc = (c.pc + offset) % U16] ELSE c

\* mutant: an unmapped opcode treated as NOP
ExecIllegal_Nop(c, opcode) == c

ExecIllegal(c, opcode) == [c EXCEPT !.panic = IllegalPanic(opcode)]

\* mutant: BRK falls through as a no-op
ExecBRK_Nop(c) == c

ExecBRK(c) == [c EXCEPT !.panic = TodoPanic]

\* mutant: SED written as a copy of CLD
ExecFlag_SedClears(c, flag, value) ==
    [c EXCEPT !.sr = StatusSet(c.sr, flag, IF flag = "D" THEN FALSE ELSE value)]

\* CLC, CLD, CLI, CLV, SEC, SED, SEI: self.sr.set(flag, value)
ExecFlag(c, flag, value) == [c EXCEPT !.sr = StatusSet(c.sr, flag, value)]

\* mutant: the register is written and the flags are left alone
ExecSetX_NoZn(c, v) == [c EXCEPT !.x = v]

ExecSetX(c, v) == [c EXCEPT !.x = v, !.sr = set_zn_flags(c.sr, v)]

ExecSetY(c, v) == [c EXCEPT !.y = v, !.sr = set_zn_flags(c.sr, v)]

ExecSetAcc(c, v) == [c EXCEPT !.acc = v, !.sr = set_zn_flags(c.sr, v)]

\* mutant: LDX reads the zero-page byte its operand addresses
ExecLDX_ZeroPage(c, data) ==
    LET r == WramRead(c, data)
    IN  IF r.panic # NoPanic THEN r ELSE ExecSetX(r, read_u8(c.wram, data))

\* LDX(data): the operand byte itself is loaded
ExecLDX(c, data) == ExecSetX(c, data)

\* LDY(data): the operand byte itself is loaded
ExecLDY(c, data) == ExecSetY(c, data)

\* LDA(data): the operand byte itself is loaded
ExecLDA(c, data) == ExecSetAcc(c, data)

execute(c, i) ==
    CASE i.op = "BRK" -> ExecBRK(c)
      [] i.op = "ASL" -> ExecASL(c, i.arg)
      [] i.op = "AND" -> ExecAND(c, i.arg)
      [] i.op = "ADC" -> ExecADC(c, i.arg)
      [] i.op = "CLC" -> ExecFlag(c, "C", FALSE)
      [] i.op = "CLD" -> ExecFlag(c, "D", FALSE)
      [] i.op = "CLI" -> ExecFlag(c, "I", FALSE)
      [] i.op = "CLV" -> ExecFlag(c, "V", FALSE)
      [] i.op = "DEX" -> ExecSetX(c, wrapping_sub(c.x, 1))
      [] i.op = "DEY" -> ExecSetY(c, wrapping_sub(c.y, 1))
      [] i.op = "LDA" -> ExecLDA(c, i.arg)
      [] i.op = "SEC" -> ExecFlag(c, "C", TRUE)
      [] i.op = "SED" -> ExecFlag(c, "D", TRUE)
      [] i.op = "SEI" -> ExecFlag(c, "I", TRUE)
      [] i.op = "STA" -> ExecSTA(c, i.arg)
      [] i.op = "BCC" -> ExecBCC(c, i.arg)
      [] i.op = "INC" -> ExecINC(c, i.arg)
      [] i.op = "LDX" -> ExecLDX(c, i.arg)
      [] i.op = "LDY" -> ExecLDY(c, i.arg)
      [] i.op = "NOP" -> c
      [] i.op = "INX" -> ExecSetX(c, wrapping_add(c.x, 1))
      [] i.op = "INY" -> ExecSetY(c, wrapping_add(c.y, 1))
      [] i.op = "TAX" -> ExecSetX(c, c.acc)
      [] i.op = "TAY" -> ExecSetY(c, c.acc)
      [] i.op = "TXA" -> ExecSetAcc(c, c.x)
      [] i.op = "TYA" -> ExecSetAcc(c, c.y)
      [] i.op = "Illegal" -> ExecIllegal(c, i.arg)

\* tick: fetch, decode, execute; a panic on the way ends it there
tick(c) ==
    LET f == fetch(c)
    IN  IF f.cpu.panic # NoPanic
        THEN [cpu |-> f.cpu, inst |-> NoInst]
        ELSE LET d == decode(f.cpu, f.byte)
             IN  IF d.cpu.panic # NoPanic
                 THEN [cpu |-> d.cpu, inst |-> NoInst]
                 ELSE [cpu |-> execute(d.cpu, d.inst), inst |-> d.inst]

(***************************************************************************)
(* CPU::new                                                                *)
(***************************************************************************)
\* mutant: the two flags combined with |
NewStatus_Or == {"U"} \cup {"I"}

NewStatus == StatusAnd({"U"}, {"I"})

new(program) ==
    [acc |-> 0, x |-> 0, y |-> 0, sr |-> NewStatus, sp |-> 253, pc |-> 0,
     rom |-> program, wram |-> MemoryNew(WRAM_SIZE)]


(***************************************************************************)
(* The CPU value of the current state, and the tick() operation.           *)
(***************************************************************************)
Self ==
    [acc |-> acc, x |-> x, y |-> y, sr |-> sr, sp |-> sp, pc |-> pc,
     rom |-> rom, wram |-> wram, panic |-> panic, io |-> <<>>]

Snapshot ==
    [acc |-> acc, x |-> x, y |-> y, sr |-> sr, sp |-> sp, pc |-> pc, wram |-> wram]

Tick ==
    /\ panic = NoPanic
    /\ \E t \in {tick(Self)} :
           /\ acc' = t.cpu.acc
           /\ x' = t.cpu.x
           /\ y' = t.cpu.y
           /\ sr' = t.cpu.sr
           /\ sp' = t.cpu.sp
           /\ pc' = t.cpu.pc
           /\ wram' = t.cpu.wram
           /\ rom' = t.cpu.rom
           /\ panic' = t.cpu.panic
           /\ io' = t.cpu.io
           /\ inst' = t.inst
    /\ pre' = <<Snapshot>>

Next == Tick

(***************************************************************************)
(* Program images.                                                         *)
(***************************************************************************)
\* one-byte encodings: BRK, the sixteen implied-mode opcodes, and two of
\* the bytes the table does not map (0x02, 0xFF)
OneByteEncodings ==
    {0, 24, 56, 88, 120, 136, 138, 152, 168, 170, 184, 200, 202, 216, 232, 234, 248,
     2, 255}

\* the first bytes of the two-byte encodings
TwoByteEncodings == {6, 37, 101, 133, 144, 164, 166, 169, 230}

\* operand bytes: zero-page addresses, immediates and branch offsets
OperandBytes == {0, 128, 255}

\* the operand bytes of the tests' one-instruction programs
TestOperandBytes == {0, 2, 32, 128, 255}

Instrs(operands) ==
    {<<op>> : op \in OneByteEncodings}
        \cup {<<op, b>> : op \in TwoByteEncodings, b \in operands}

\* the byte sequences of at most n instructions
RECURSIVE Programs(_, _)
Programs(n, operands) ==
    IF n = 0 THEN {<<>>}
    ELSE LET shorter == Programs(n - 1, operands)
         IN  shorter \cup {p \o i : p \in shorter, i \in Instrs(operands)}

Fill(n, byte) == [i \in 1 .. n |-> byte]

\* images that fill the ROM to its last byte: NOPs to the end; NOPs and an
\* LDA opcode in the last byte; NOPs and a BCC in the last two bytes, with
\* Carry clear and with Carry set; SEC and then a BCC 0xFF wherever the
\* previous one lands
\* SEC, then a taken BCC 0xFF every 257 bytes: sixteen branches carry pc from
\* 1 past the end of the ROM
HopProgram ==
    [i \in 1 .. ROM_SIZE |->
        IF i = 1 THEN 56
        ELSE IF (i - 2) % 257 = 0 THEN 144
        ELSE IF (i - 3) % 257 = 0 THEN 255
        ELSE 0]

FullPrograms ==
    {Fill(ROM_SIZE, 234),
     Fill(ROM_SIZE - 1, 234) \o <<169>>,
     Fill(ROM_SIZE - 2, 234) \o <<144, 2>>,
     <<56>> \o Fill(ROM_SIZE - 3, 234) \o <<144, 2>>,
     HopProgram}

\* the multi-instruction programs of the tests
TestPrograms ==
    {<<144, 0, 200>>, <<144, 2, 255, 255, 200>>, <<144, 2, 169, 255, 200>>}

\* an instruction and the one that repeats or undoes it: each flag
\* instruction twice, INX DEX, INY DEY, TAX TXA, TAY TYA, and LDA #0x80 TAX
PairPrograms ==
    {<<op, op>> : op \in {24, 216, 88, 184, 56, 248, 120}}
        \cup {<<232, 202>>, <<200, 136>>, <<170, 138>>, <<168, 152>>, <<169, 128, 170>>}

\* programs that try to loop: SEC, then a BCC whose operand, were it signed,
\* would lead back to the BCC itself, to the SEC, or to the NOP before it
LoopPrograms == {<<56, 144, 254>>, <<56, 144, 253>>, <<56, 234, 144, 252>>}

\* LDA #d; STA 0; ADC 0 (d + d leaves the signed range) and the same followed
\* by CLV
OverflowPrograms ==
    {<<169, 127, 133, 0, 101, 0>>, <<169, 128, 133, 0, 101, 0>>,
     <<169, 127, 133, 0, 101, 0, 184>>}

InitCpu(c) ==
    /\ acc = c.acc
    /\ x = c.x
    /\ y = c.y
    /\ sr = c.sr
    /\ sp = c.sp
    /\ pc = c.pc
    /\ wram = c.wram
    /\ rom = c.rom
    /\ panic = NoPanic
    /\ pre = <<>>
    /\ inst = NoInst
    /\ io = <<>>

\* a CPU constructed on a program image
Init ==
    \E bytes \in Programs(MaxInstrs, OperandBytes) \cup TestPrograms \cup FullPrograms
                   \cup LoopPrograms \cup OverflowPrograms :
        InitCpu(new(with_program(ROM_SIZE, bytes)))

Spec == Init /\ [][Next]_vars

(***************************************************************************)
(* The tests' harness: program(bytes), then some fields set directly       *)
(* (cpu.acc = .., cpu.sr.set(..), cpu.wram.write_u8(..)), then ticks.      *)
(***************************************************************************)
AccPresets == {0, 1, 4, 127, 128, 255}

XYPresets == {0, 127, 128, 255}

PokeAddrs == {0, 32}

PokeBytes == {1, 64, 128, 255}

FlagPresets == {s \in SUBSET Flags : Cardinality(s) <= MaxPresets}

\* working RAM with at most n bytes written
RECURSIVE Poked(_)
Poked(n) ==
    IF n = 0 THEN {MemoryNew(WRAM_SIZE)}
    ELSE LET fewer == Poked(n - 1)
         IN  fewer \cup {write_u8(m, a, v) : m \in fewer, a \in PokeAddrs, v \in PokeBytes}

NonZero(v) == IF v # 0 THEN 1 ELSE 0

InitTests ==
    \E s \in FlagPresets, a \in AccPresets :
        /\ Cardinality(s) + NonZero(a) <= MaxPresets
        /\ \E xx \in XYPresets, yy \in XYPresets :
            /\ Cardinality(s) + NonZero(a) + NonZero(xx) + NonZero(yy) <= MaxPresets
            /\ \E m \in Poked(MaxPresets) :
                /\ Cardinality(s) + NonZero(a) + NonZero(xx) + NonZero(yy)
                       + Cardinality(DOMAIN m.data) <= MaxPresets
                /\ \E bytes \in Programs(1, TestOperandBytes) \cup TestPrograms \cup PairPrograms :
                    InitCpu([new(with_program(ROM_SIZE, bytes))
                                EXCEPT !.acc = a, !.x = xx, !.y = yy,
                                       !.sr = @ \cup s, !.wram = m])

SpecTests == InitTests /\ [][Next]_vars

\* a driver that keeps calling tick() for as long as the run has not stopped,
\* on the enumerated programs, the would-be loops and the hopping image
InitDriven ==
    \E bytes \in Programs(MaxDrivenInstrs, OperandBytes) \cup TestPrograms
                   \cup LoopPrograms \cup {HopProgram} :
        InitCpu(new(with_program(ROM_SIZE, bytes)))

SpecDriven == InitDriven /\ [][Next]_vars /\ WF_vars(Tick)


(***************************************************************************)
(* What the claims read.                                                   *)
(***************************************************************************)
\* a tick has been called
Ticked == pre # <<>>

\* the CPU as it was when the last tick was called
Pre == pre[1]

\* the last tick returned
Completed == Ticked /\ panic = NoPanic

\* the ROM addresses the last tick read, in order
RomReads == SelectSeq(io, LAMBDA a : a.mem = "rom")

\* the byte at the pc where the last tick started
StartByte == read_u8(rom, Pre.pc)

Bit7(v) == (v \div 128) % 2 = 1

\* every working-RAM byte but the one at addr is as it was before the tick
RamSameExcept(addr) ==
    \A a \in (DOMAIN wram.data \cup DOMAIN Pre.wram.data) \ {addr} :
        read_u8(wram, a) = read_u8(Pre.wram, a)

RamSame == wram = Pre.wram

(***************************************************************************)
(* C1: a tick of a mapped opcode that returns, a taken branch aside, reads *)
(* exactly the bytes of the instruction's encoding from the program stream *)
(* and advances pc by as many: one byte for the no-operand opcodes, two    *)
(* for the one-operand opcodes, whose operand is the ROM byte at pc + 1.   *)
(***************************************************************************)
C1_OneByte ==
    {24, 56, 88, 120, 184, 216, 248, 202, 136, 232, 200, 170, 168, 138, 152, 234}

C1_TwoByte == {6, 37, 101, 133, 144, 164, 166, 169, 230}

C1_Taken == StartByte = 144 /\ "C" \in Pre.sr

C1_EncodingLength ==
    Completed =>
        /\ StartByte \in C1_OneByte =>
              /\ pc = Pre.pc + 1
              /\ [i \in 1 .. Len(RomReads) |-> RomReads[i].addr] = <<Pre.pc>>
        /\ (StartByte \in C1_TwoByte /\ ~C1_Taken) =>
              /\ pc = Pre.pc + 2
              /\ [i \in 1 .. Len(RomReads) |-> RomReads[i].addr] = <<Pre.pc, Pre.pc + 1>>
              /\ inst.arg = read_u8(rom, Pre.pc + 1)

C1_Witness ==
    /\ Completed
    /\ Pre.pc = 1
    /\ StartByte = 133
    /\ inst.arg = 128
    /\ pc = 3

(***************************************************************************)
(* C2, as claimed: after an instruction that calls the zero/negative       *)
(* update, Z and N describe the affected value and C, I, D, B, U and V are *)
(* as before the tick.                                                     *)
(***************************************************************************)
C2_Ops ==
    {"ASL", "AND", "ADC", "INC", "DEX", "DEY", "INX", "INY", "LDA", "LDX", "LDY",
     "TAX", "TAY", "TXA", "TYA"}

\* the register or memory byte the instruction wrote
C2_Affected ==
    CASE inst.op \in {"ASL", "INC"} -> read_u8(wram, inst.arg)
      [] inst.op \in {"AND", "ADC", "LDA", "TXA", "TYA"} -> acc
      [] inst.op \in {"DEX", "INX", "LDX", "TAX"} -> x
      [] inst.op \in {"DEY", "INY", "LDY", "TAY"} -> y

C2_ZN ==
    /\ "Z" \in sr <=> C2_Affected = 0
    /\ "N" \in sr <=> Bit7(C2_Affected)

C2_AllOtherFlagsKept ==
    (Completed /\ inst.op \in C2_Ops) =>
        /\ C2_ZN
        /\ sr \ {"Z", "N"} = Pre.sr \ {"Z", "N"}

(***************************************************************************)
(* C2, amended: Z and N describe the affected value; I, D, B, U and V are  *)
(* as before the tick; C is as before the tick except after ASL and ADC,   *)
(* which set it themselves.                                                *)
(***************************************************************************)
C2_ZeroNegative ==
    (Completed /\ inst.op \in C2_Ops) =>
        /\ C2_ZN
        /\ sr \ {"Z", "N", "C"} = Pre.sr \ {"Z", "N", "C"}
        /\ inst.op \notin {"ASL", "ADC"} => ("C" \in sr <=> "C" \in Pre.sr)

C2_Witness ==
    /\ Completed
    /\ inst.op = "INX"
    /\ Pre.x = 255
    /\ Pre.sr = {"C"}
    /\ x = 0
    /\ sr = {"C", "Z"}

(***************************************************************************)
(* C3: right after construction the status register holds U and I and no   *)
(* other flag.                                                             *)
(***************************************************************************)
C3_InitialStatus == ~Ticked => sr = {"U", "I"}

(***************************************************************************)
(* C4: on a CPU whose flags are as constructed, the first tick of an       *)
(* instruction whose result is non-zero, has bit 7 clear and produces no   *)
(* carry leaves no flag set.                                               *)
(***************************************************************************)
C4_Ops ==
    {"ASL", "AND", "ADC", "LDA", "LDX", "LDY", "INX", "INY", "DEX", "DEY",
     "TAX", "TAY", "TXA", "TYA"}

C4_NoCarry ==
    /\ inst.op = "ASL" => read_u8(Pre.wram, inst.arg) < 128
    /\ inst.op = "ADC" => Pre.acc + read_u8(Pre.wram, inst.arg) < 256

C4_Plain ==
    /\ Completed
    /\ Pre.pc = 0
    /\ Pre.sr = new(rom).sr
    /\ inst.op \in C4_Ops
    /\ C2_Affected # 0
    /\ ~Bit7(C2_Affected)
    /\ C4_NoCarry

C4_StatusEmpty == C4_Plain => sr = {}

C4_Witness ==
    /\ C4_Plain
    /\ inst.op = "ADC"
    /\ Pre.acc = 4
    /\ read_u8(Pre.wram, inst.arg) = 64
    /\ acc = 68
    /\ sr = {}


(***************************************************************************)
(* C5: BCC's operand b is a signed 8-bit offset: with Carry set the tick   *)
(* ends with pc = (p + 2 + s(b)) mod 2^16, where s(b) = b below 0x80 and   *)
(* b - 256 from 0x80 on.                                                   *)
(***************************************************************************)
C5_Signed(b) == IF b < 128 THEN b ELSE b - 256

C5_SignedOffset ==
    (Completed /\ inst.op = "BCC" /\ "C" \in Pre.sr) =>
        pc = (Pre.pc + 2 + C5_Signed(inst.arg)) % 65536

(***************************************************************************)
(* C6: BCC at p with operand k in 0 .. 0x7F leaves pc at p + 2 + k when    *)
(* Carry is set and at p + 2 when it is clear, changes nothing but pc, and *)
(* the next tick fetches its opcode from there, reading none of the bytes  *)
(* the branch skipped.                                                     *)
(***************************************************************************)
C6_Branched == Completed /\ inst.op = "BCC" /\ inst.arg < 128

C6_Target == IF "C" \in Pre.sr THEN Pre.pc + 2 + inst.arg ELSE Pre.pc + 2

C6_OnlyPc ==
    /\ acc = Pre.acc
    /\ x = Pre.x
    /\ y = Pre.y
    /\ sp = Pre.sp
    /\ sr = Pre.sr
    /\ RamSame

C6_BranchOrder ==
    [][C6_Branched =>
          /\ pc = C6_Target
          /\ C6_OnlyPc
          /\ io'[1] = Access("rom", "read", C6_Target)
          /\ \A i \in 1 .. Len(io') :
                io'[i].mem = "rom" => io'[i].addr \notin (Pre.pc + 2) .. (C6_Target - 1)]_vars

\* test_0x90_bcc_offset: the INY behind the two skipped bytes has run
C6_Witness ==
    /\ Completed
    /\ read_u8(rom, 0) = 144
    /\ read_u8(rom, 1) = 2
    /\ "C" \in sr
    /\ Pre.pc = 4
    /\ inst.op = "INY"
    /\ y = 1

(***************************************************************************)
(* C7: every address a tick passes to the program ROM is below ROM_SIZE    *)
(* and every address it passes to working RAM is below WRAM_SIZE.          *)
(***************************************************************************)
C7_AddressesInRange ==
    \A i \in 1 .. Len(io) :
        /\ io[i].mem = "rom" => io[i].addr < 3840
        /\ io[i].mem = "wram" => io[i].addr < 2048

(***************************************************************************)
(* C8: a tick that starts on a byte the opcode table does not map ends in  *)
(* a fatal error that carries that byte; acc, x, y, the flags and RAM are  *)
(* as before the tick, and no tick follows.                                *)
(***************************************************************************)
C8_Mapped ==
    {0, 6, 24, 37, 56, 88, 101, 120, 133, 136, 138, 144, 152, 164, 166, 168, 169,
     170, 184, 200, 202, 216, 230, 232, 234, 248}

C8_StartedUnmapped == Ticked /\ Pre.pc < 3840 /\ StartByte \notin C8_Mapped

C8_IllegalHalts ==
    /\ C8_StartedUnmapped =>
          /\ panic = [kind |-> "illegal", val |-> StartByte]
          /\ acc = Pre.acc
          /\ x = Pre.x
          /\ y = Pre.y
          /\ sr = Pre.sr
          /\ RamSame
          /\ ~ENABLED Next
    /\ panic.kind = "illegal" => C8_StartedUnmapped

C8_Witness ==
    /\ C8_StartedUnmapped
    /\ Pre.pc = 2
    /\ Pre.acc = 128
    /\ panic = [kind |-> "illegal", val |-> 255]

(***************************************************************************)
(* C9: ADC with zero-page address a, accumulator A and M = RAM[a] leaves   *)
(* acc = (A + M) mod 256, Carry set iff A + M >= 256 whatever Carry was,   *)
(* Z and N from the new accumulator, Overflow and RAM as they were.        *)
(***************************************************************************)
C9_M == read_u8(Pre.wram, inst.arg)

C9_Adc ==
    (Completed /\ inst.op = "ADC") =>
        /\ acc = (Pre.acc + C9_M) % 256
        /\ "C" \in sr <=> Pre.acc + C9_M >= 256
        /\ "Z" \in sr <=> acc = 0
        /\ "N" \in sr <=> Bit7(acc)
        /\ "V" \in sr <=> "V" \in Pre.sr
        /\ RamSame
        /\ (Pre.acc = 4 /\ C9_M = 64) => (acc = 68 /\ "C" \notin sr)
        /\ (Pre.acc = 255 /\ C9_M = 1) => (acc = 0 /\ "C" \in sr)

C9_Witness ==
    /\ Completed
    /\ inst.op = "ADC"
    /\ Pre.acc = 255
    /\ C9_M = 1
    /\ acc = 0
    /\ sr = {"C", "Z"}

(***************************************************************************)
(* C10: ASL with zero-page address a and M = RAM[a] leaves                 *)
(* RAM[a] = (2 * M) mod 256, Carry equal to bit 7 of M, Z and N from the   *)
(* shifted byte, and acc, x, y and every other RAM byte as they were.      *)
(***************************************************************************)
C10_M == read_u8(Pre.wram, inst.arg)

C10_Asl ==
    (Completed /\ inst.op = "ASL") =>
        /\ read_u8(wram, inst.arg) = (2 * C10_M) % 256
        /\ "C" \in sr <=> C10_M >= 128
        /\ "Z" \in sr <=> read_u8(wram, inst.arg) = 0
        /\ "N" \in sr <=> Bit7(read_u8(wram, inst.arg))
        /\ acc = Pre.acc
        /\ x = Pre.x
        /\ y = Pre.y
        /\ RamSameExcept(inst.arg)
        /\ C10_M = 128 => (read_u8(wram, inst.arg) = 0 /\ {"C", "Z"} \subseteq sr)
        /\ C10_M = 64 => (read_u8(wram, inst.arg) = 128 /\ "C" \notin sr /\ "N" \in sr)

\* Carry was set and bit 7 of M clear: the shift clears Carry
C10_Witness ==
    /\ Completed
    /\ inst.op = "ASL"
    /\ "C" \in Pre.sr
    /\ C10_M = 64
    /\ read_u8(wram, inst.arg) = 128
    /\ sr = {"N"}


(***************************************************************************)
(* C11: 0xA6 (LDX) and 0xA4 (LDY) are zero-page loads: after the tick the  *)
(* register holds the working-RAM byte at the operand's address, and Z and *)
(* N describe that byte.                                                   *)
(***************************************************************************)
C11_Operand == read_u8(rom, Pre.pc + 1)

C11_Loaded == read_u8(Pre.wram, C11_Operand)

C11_ZeroPageLoad ==
    (Completed /\ StartByte \in {166, 164}) =>
        /\ StartByte = 166 => x = C11_Loaded
        /\ StartByte = 164 => y = C11_Loaded
        /\ "Z" \in sr <=> C11_Loaded = 0
        /\ "N" \in sr <=> Bit7(C11_Loaded)

(***************************************************************************)
(* C12: the program [0xA9, d], [0xA6, d] or [0xA4, d] on a CPU whose       *)
(* working RAM is all zero leaves, after one tick, d in acc, x or y, Z set *)
(* iff d = 0, N set iff d >= 0x80, and the other two registers and RAM as  *)
(* they were.                                                              *)
(***************************************************************************)
C12_D == read_u8(rom, 1)

C12_FirstLoad ==
    /\ Ticked
    /\ Pre.pc = 0
    /\ StartByte \in {169, 166, 164}
    /\ DOMAIN rom.data \subseteq {0, 1}
    /\ Pre.wram = MemoryNew(2048)

C12_LoadsOperand ==
    C12_FirstLoad =>
        /\ panic = NoPanic
        /\ StartByte = 169 => (acc = C12_D /\ x = Pre.x /\ y = Pre.y)
        /\ StartByte = 166 => (x = C12_D /\ acc = Pre.acc /\ y = Pre.y)
        /\ StartByte = 164 => (y = C12_D /\ acc = Pre.acc /\ x = Pre.x)
        /\ "Z" \in sr <=> C12_D = 0
        /\ "N" \in sr <=> C12_D >= 128
        /\ RamSame

\* test_0xa6_ldx_negative_flag, with acc and y preset
C12_Witness ==
    /\ C12_FirstLoad
    /\ StartByte = 166
    /\ C12_D = 128
    /\ Pre.acc = 4
    /\ Pre.y = 127
    /\ x = 128
    /\ acc = 4
    /\ y = 127
    /\ sr = {"N"}

(***************************************************************************)
(* C13: a tick that fetches 0x00 (BRK) aborts the run: acc, x, y, sp, the  *)
(* flags and RAM are as before the tick and no tick follows.  A byte the   *)
(* program did not supply reads as zero, so a run whose pc has moved past  *)
(* the supplied bytes, inside the ROM, stops this way.                     *)
(***************************************************************************)
C13_FetchedBrk == Ticked /\ Pre.pc < 3840 /\ StartByte = 0

C14_Ops == {"CLC", "CLD", "CLI", "CLV", "SEC", "SED", "SEI"}

C14_Flag ==
    CASE inst.op \in {"CLC", "SEC"} -> "C"
      [] inst.op \in {"CLD", "SED"} -> "D"
      [] inst.op \in {"CLI", "SEI"} -> "I"
      [] inst.op = "CLV" -> "V"

C14_Ran == Completed /\ inst.op \in C14_Ops

C14_FlagOnly ==
    [][C14_Ran =>
          /\ inst.op \in {"CLC", "CLD", "CLI", "CLV"} => C14_Flag \notin sr
          /\ inst.op \in {"SEC", "SED", "SEI"} => C14_Flag \in sr
          /\ sr \ {C14_Flag} = Pre.sr \ {C14_Flag}
          /\ acc = Pre.acc
          /\ x = Pre.x
          /\ y = Pre.y
          /\ sp = Pre.sp
          /\ RamSame
          /\ (inst'.op = inst.op /\ panic' = NoPanic) => sr' = sr]_vars

\* SED twice, on a CPU preset with Z and N
C14_Witness ==
    /\ C14_Ran
    /\ inst.op = "SED"
    /\ Pre.pc = 1
    /\ read_u8(rom, 0) = 248
    /\ sr = {"D", "Z", "N"}

(***************************************************************************)
(* C15: Z and N always describe the last value given to the zero/negative  *)
(* update: an updating instruction leaves them describing the value it     *)
(* wrote, and STA, NOP, BCC and the seven flag instructions leave them as  *)
(* they were.                                                              *)
(***************************************************************************)
C15_Keeping == {"STA", "NOP", "BCC", "CLC", "CLD", "CLI", "CLV", "SEC", "SED", "SEI"}

C15_ZnTracksLastUpdate ==
    /\ (Completed /\ inst.op \in C2_Ops) => C2_ZN
    /\ (Completed /\ inst.op \in C15_Keeping) =>
          /\ "Z" \in sr <=> "Z" \in Pre.sr
          /\ "N" \in sr <=> "N" \in Pre.sr
    /\ (Ticked /\ panic # NoPanic) => sr = Pre.sr

\* LDA #0x80 set N; the STA after it kept it
C15_Witness ==
    /\ Completed
    /\ inst.op = "STA"
    /\ Pre.pc = 2
    /\ read_u8(rom, 0) = 169
    /\ read_u8(rom, 1) = 128
    /\ sr = {"N"}

(***************************************************************************)
(* C16: STA with zero-page address a leaves RAM[a] = acc, every other RAM  *)
(* byte, acc, x, y, sp and all eight flags as they were.                   *)
(***************************************************************************)
C16_Sta ==
    (Completed /\ inst.op = "STA") =>
        /\ read_u8(wram, inst.arg) = Pre.acc
        /\ RamSameExcept(inst.arg)
        /\ acc = Pre.acc
        /\ x = Pre.x
        /\ y = Pre.y
        /\ sp = Pre.sp
        /\ sr = Pre.sr

\* test_0x85_sta, with x preset to another value
C16_Witness ==
    /\ Completed
    /\ inst.op = "STA"
    /\ inst.arg = 255
    /\ Pre.acc = 255
    /\ Pre.x = 127
    /\ read_u8(Pre.wram, 255) = 0
    /\ read_u8(wram, 255) = 255

(***************************************************************************)
(* C17: INX, INY add 1 and DEX, DEY subtract 1 modulo 256 in their         *)
(* register, INC adds 1 modulo 256 to RAM[a], none of them fails, Z and N  *)
(* describe the result, and DEX after INX (DEY after INY) restores the     *)
(* register.                                                               *)
(***************************************************************************)
C17_Ops == {"INX", "INY", "DEX", "DEY", "INC"}

\* the tick about to run starts on INX, INY, DEX or DEY, or on an INC whose
\* operand byte is inside the ROM
C17_Starting ==
    \/ pc < 3840 /\ read_u8(rom, pc) \in {232, 200, 202, 136}
    \/ pc + 1 < 3840 /\ read_u8(rom, pc) = 230

C17_IncDec ==
    [][/\ C17_Starting => panic' = NoPanic
       /\ (Completed /\ inst.op \in C17_Ops) =>
             /\ inst.op = "INX" => x = (Pre.x + 1) % 256
             /\ inst.op = "INY" => y = (Pre.y + 1) % 256
             /\ inst.op = "DEX" => x = (Pre.x - 1) % 256
             /\ inst.op = "DEY" => y = (Pre.y - 1) % 256
             /\ inst.op = "INC" =>
                   read_u8(wram, inst.arg) = (read_u8(Pre.wram, inst.arg) + 1) % 256
             /\ C2_ZN
             /\ (inst.op \in {"DEX", "DEY"} /\ C2_Affected = 255) =>
                   ("N" \in sr /\ "Z" \notin sr)
             /\ (inst.op \in {"INX", "INY"} /\ C2_Affected = 0) =>
                   ("Z" \in sr /\ "N" \notin sr)
             /\ (inst.op = "INX" /\ inst'.op = "DEX") => x' = Pre.x
             /\ (inst.op = "INY" /\ inst'.op = "DEY") => y' = Pre.y]_vars

\* DEX on x = 0
C17_Witness ==
    /\ Completed
    /\ inst.op = "DEX"
    /\ Pre.x = 0
    /\ x = 255
    /\ "N" \in sr
    /\ "Z" \notin sr

(***************************************************************************)
(* C18: TAX, TAY, TXA and TYA copy the source register to the destination, *)
(* leave the source, the third register and RAM as they were and take Z    *)
(* and N from the destination; TXA after TAX (TYA after TAY) leaves acc as *)
(* it was, and TAX after LDA #0x80 leaves x = 0x80 with N set and Z clear  *)
(* after each of the two steps.                                            *)
(***************************************************************************)
C18_Ops == {"TAX", "TAY", "TXA", "TYA"}

C18_NegativeOnly == "N" \in sr /\ "Z" \notin sr

C18_Transfer ==
    [][(Completed /\ inst.op \in C18_Ops) =>
          /\ inst.op = "TAX" => (x = Pre.acc /\ acc = Pre.acc /\ y = Pre.y)
          /\ inst.op = "TAY" => (y = Pre.acc /\ acc = Pre.acc /\ x = Pre.x)
          /\ inst.op = "TXA" => (acc = Pre.x /\ x = Pre.x /\ y = Pre.y)
          /\ inst.op = "TYA" => (acc = Pre.y /\ y = Pre.y /\ x = Pre.x)
          /\ RamSame
          /\ C2_ZN
          /\ (inst.op = "TAX" /\ inst'.op = "TXA") => acc' = Pre.acc
          /\ (inst.op = "TAY" /\ inst'.op = "TYA") => acc' = Pre.acc
          /\ (inst.op = "TAX" /\ Pre.pc = 2 /\ read_u8(rom, 0) = 169 /\ read_u8(rom, 1) = 128) =>
                /\ "N" \in Pre.sr /\ "Z" \notin Pre.sr
                /\ x = 128
                /\ C18_NegativeOnly]_vars

\* LDA #0x80 and then TAX, on a CPU preset with x = 0x7F and Z
C18_Witness ==
    /\ Completed
    /\ inst.op = "TAX"
    /\ Pre.pc = 2
    /\ read_u8(rom, 0) = 169
    /\ read_u8(rom, 1) = 128
    /\ Pre.x = 127
    /\ x = 128
    /\ acc = 128
    /\ C18_NegativeOnly


(***************************************************************************)
(* C19: every tick that returns leaves pc above where it started, and it   *)
(* started inside the ROM, so each returning tick uses up ROM bytes of its *)
(* own; a driver that keeps calling tick() reaches a fatal stop.           *)
(***************************************************************************)
C19_Stopped == panic # NoPanic

C19_PcIncreases == [][panic' = NoPanic => (pc' > pc /\ pc < 3840)]_vars

C19_NoLoop ==
    /\ C19_PcIncreases
    /\ <>C19_Stopped

\* sixteen taken branches have carried pc past the end of the ROM
C19_Witness ==
    /\ Ticked
    /\ Pre.pc = 3856
    /\ panic = [kind |-> "range", val |-> 3856]

(***************************************************************************)
(* C20: no tick changes a ROM byte; working RAM is read and written at     *)
(* addresses 0x00 .. 0xFF only, so the bytes from 0x100 on stay zero; and  *)
(* a RAM byte changes only in a tick of ASL, INC or STA.                   *)
(***************************************************************************)
C20_ZeroPage == 0 .. 255

C20_Memories ==
    [][/\ rom' = rom
       /\ \A i \in 1 .. Len(io') : io'[i].mem = "wram" => io'[i].addr \in C20_ZeroPage
       /\ \A a \in 256 .. 2047 : read_u8(wram', a) = 0
       /\ wram' # wram => inst'.op \in {"ASL", "INC", "STA"}]_vars

\* LDA #0x80; STA 0xFF
C20_Witness ==
    /\ Completed
    /\ inst.op = "STA"
    /\ inst.arg = 255
    /\ read_u8(wram, 255) = 128
    /\ read_u8(rom, 0) = 169
    /\ read_u8(rom, 3) = 255

(***************************************************************************)
(* C21: in every state reached from construction by ticks alone the stack  *)
(* pointer is 0xFD and the Break, Unused and Overflow flags are clear.     *)
(***************************************************************************)
C21_StackAndFlags ==
    /\ sp = 253
    /\ sr \cap {"B", "U", "V"} = {}

\* LDA #0x7F; STA 0; ADC 0: 0x7F + 0x7F = 0xFE, a signed overflow, has just
\* been added
C21_Witness ==
    /\ Completed
    /\ inst.op = "ADC"
    /\ Pre.acc = 127
    /\ read_u8(Pre.wram, inst.arg) = 127
    /\ acc = 254

=============================================================================
